---- MODULE Spec2Model ----
(***************************************************************************)
(* A model of mm.c, the explicit-free-list allocator.                      *)
(*                                                                         *)
(* The arena is a sequence of 4-byte words; every access the allocator     *)
(* makes (GET, PUT, NEXT, PREV) is one aligned word, and the only byte     *)
(* copy, memcpy in mm_realloc, has a length that is a multiple of 8.       *)
(* Addresses are byte addresses; pointers are 4 bytes wide (the ILP32      *)
(* build the link words of a 16-byte minimum block require: NEXT is the    *)
(* word at bp and PREV the word at bp + WSIZE).                            *)
(***************************************************************************)
EXTENDS Integers, Sequences, FiniteSets, TLC

\* ------------------------------------------------------------ constants
ALIGNMENT == 8
WSIZE == 4
DSIZE == 8
CHUNKSIZE == 256
MIN_BLKSIZE == 16
NULL == 0

\* mem_heap_lo(): the address of the first arena byte (a multiple of 8).
HeapBase == 4096

\* ---------------------------------------------------------------- bounds
\* The backing store refuses to grow the arena beyond MaxHeap bytes.
MaxHeap == 600
\* The client holds at most MaxLive allocations at a time.
MaxLive == 3
\* The client makes at most MaxOps calls of mm_malloc, mm_free, mm_realloc.
MaxOps == 7

\* The request sizes the client draws from: for mm_malloc (0, at most
\* DSIZE, above DSIZE, and one whose block exceeds CHUNKSIZE), and for
\* mm_realloc (0 and one that no old block exceeds).
Sizes == {0, 1, 100, 250}

ReSizes == {0, 250}

\* ------------------------------------------------------- block encoding
\* A heap h is [mem : Seq(word), heap_p : address].
Idx(p) == (p - HeapBase) \div WSIZE + 1

mem_heapsize(h) == WSIZE * Len(h.mem)

\* p is the address of a word of the arena.
InArena(h, p) ==
    /\ p >= HeapBase
    /\ p + WSIZE <= HeapBase + mem_heapsize(h)
    /\ p % WSIZE = 0

ALIGN(size) == ((size + (ALIGNMENT - 1)) \div 8) * 8

\* MAX that always takes its first argument.
MAX_first(x, y) == x

MAX(x, y) == IF x > y THEN x ELSE y

\* size | alloc, with alloc in {0, 1}
PACK(size, alloc) == IF size % 2 = 1 THEN size ELSE size + alloc

GET(h, p) == h.mem[Idx(p)]

PUT(h, p, val) == [h EXCEPT !.mem[Idx(p)] = val]

GET_SIZE(h, p) == GET(h, p) - (GET(h, p) % 8)

GET_ALLOC(h, p) == GET(h, p) % 2

HDRP(bp) == bp - WSIZE

FTRP(h, bp) == bp + GET_SIZE(h, HDRP(bp)) - DSIZE

NEXT_BLKP(h, bp) == bp + GET_SIZE(h, HDRP(bp))

PREV_BLKP(h, bp) == bp - GET_SIZE(h, bp - DSIZE)

NEXT(h, bp) == GET(h, bp)

PREV(h, bp) == GET(h, bp + WSIZE)

SETNEXT(h, bp, nextaddr) == PUT(h, bp, nextaddr)

\* SETPREV that writes nothing.
SETPREV_none(h, bp, prevaddr) == h

SETPREV(h, bp, prevaddr) == PUT(h, bp + WSIZE, prevaddr)

\* Let(x, F) is F(x) with x evaluated once.
Let(x, F(_)) == CHOOSE r \in {F(v) : v \in {x}} : TRUE

\* ------------------------------------------------- the backing store
\* mem_sbrk(incr): appends incr zero bytes and returns the old break, or
\* fails, leaving the arena as it was.
SBRK_FAIL == -1

mem_sbrk(h, incr) ==
    IF incr < 0 \/ mem_heapsize(h) + incr > MaxHeap
    THEN [h |-> h, bp |-> SBRK_FAIL]
    ELSE [h  |-> [h EXCEPT !.mem = h.mem \o [i \in 1..(incr \div WSIZE) |-> 0]],
          bp |-> HeapBase + mem_heapsize(h)]

\* ------------------------------------------------ free-list primitives
\* rmv_from_list that takes bp for the first block of the list whatever its
\* prev link says.
rmv_head(h, bp) ==
    IF NEXT(h, bp) # 0
    THEN SETPREV(SETNEXT(h, h.heap_p, NEXT(h, bp)), NEXT(h, bp), 0)
    ELSE SETNEXT(h, h.heap_p, 0)

rmv_from_list(h, bp) ==
    IF PREV(h, bp) # 0 /\ NEXT(h, bp) # 0
    THEN LET orig_prev == PREV(h, bp)
             orig_next == NEXT(h, bp)
         IN SETPREV(SETNEXT(h, orig_prev, orig_next), orig_next, orig_prev)
    ELSE IF PREV(h, bp) = 0 /\ NEXT(h, bp) # 0
    THEN LET orig_next == NEXT(h, bp)
         IN SETPREV(SETNEXT(h, h.heap_p, orig_next), orig_next, 0)
    ELSE IF PREV(h, bp) # 0 /\ NEXT(h, bp) = 0
    THEN LET orig_prev == PREV(h, bp)
         IN SETNEXT(h, orig_prev, 0)
    ELSE SETNEXT(h, h.heap_p, 0)

\* insert_front_list that puts bp behind the first block of the list.
insert_after_first(h, bp) ==
    IF NEXT(h, h.heap_p) # 0
    THEN LET first == NEXT(h, h.heap_p)
             second == NEXT(h, first)
             h1 == SETPREV(SETNEXT(SETNEXT(h, first, bp), bp, second), bp, first)
         IN IF second # 0 THEN SETPREV(h1, second, bp) ELSE h1
    ELSE SETPREV(SETNEXT(SETNEXT(h, bp, 0), h.heap_p, bp), bp, 0)

insert_front_list(h, bp) ==
    LET h1 == IF NEXT(h, h.heap_p) # 0
              THEN LET orig_first == NEXT(h, h.heap_p)
                   IN SETPREV(SETNEXT(h, bp, orig_first), orig_first, bp)
              ELSE SETNEXT(h, bp, 0)
    IN SETPREV(SETNEXT(h1, h.heap_p, bp), bp, 0)

\* PutTags that writes the header and leaves the footer as it was.
PutTags_hdr(h, bp, val) == PUT(h, HDRP(bp), val)

\* PUT(HDRP(bp), val); PUT(FTRP(bp), val): the footer is found through
\* the header just written.
PutTags(h, bp, val) ==
    Let(PUT(h, HDRP(bp), val), LAMBDA h1 : PUT(h1, FTRP(h1, bp), val))

\* ------------------------------------------------------------ coalesce
\* coalesce that merges nothing.
coalesce_none(h, bp) == [h |-> insert_front_list(h, bp), bp |-> bp]

\* Returns [h, bp]: the heap afterwards and the merged free block.
coalesce(h, bp) ==
    LET prev_alloc == GET_ALLOC(h, FTRP(h, PREV_BLKP(h, bp)))
        next_alloc == GET_ALLOC(h, HDRP(NEXT_BLKP(h, bp)))
        size == GET_SIZE(h, HDRP(bp))
    IN IF prev_alloc # 0 /\ next_alloc # 0
       THEN [h |-> insert_front_list(h, bp), bp |-> bp]
       ELSE IF prev_alloc # 0 /\ next_alloc = 0
       THEN LET size1 == size + GET_SIZE(h, HDRP(NEXT_BLKP(h, bp)))
            IN Let(rmv_from_list(h, NEXT_BLKP(h, bp)), LAMBDA h1 :
               Let(PutTags(h1, bp, PACK(size1, 0)), LAMBDA h2 :
                   [h |-> insert_front_list(h2, bp), bp |-> bp]))
       ELSE IF prev_alloc = 0 /\ next_alloc # 0
       THEN LET size1 == size + GET_SIZE(h, HDRP(PREV_BLKP(h, bp)))
                bp1 == PREV_BLKP(h, bp)
            IN Let(rmv_from_list(h, bp1), LAMBDA h1 :
               Let(PutTags(h1, bp1, PACK(size1, 0)), LAMBDA h2 :
                   [h |-> insert_front_list(h2, bp1), bp |-> bp1]))
       ELSE LET size1 == size + GET_SIZE(h, HDRP(PREV_BLKP(h, bp)))
                              + GET_SIZE(h, HDRP(NEXT_BLKP(h, bp)))
            IN Let(rmv_from_list(h, PREV_BLKP(h, bp)), LAMBDA h1 :
               Let(rmv_from_list(h1, NEXT_BLKP(h1, bp)), LAMBDA h2 :
               Let(PREV_BLKP(h2, bp), LAMBDA bp1 :
               Let(PutTags(h2, bp1, PACK(size1, 0)), LAMBDA h3 :
                   [h |-> insert_front_list(h3, bp1), bp |-> bp1]))))

\* --------------------------------------------------------- extend_heap
\* extend_heap that asks the backing store a second time when it refuses.
extend_heap_retry(h, words) ==
    LET size == IF words % 2 = 1 THEN (words + 1) * WSIZE ELSE words * WSIZE
    IN Let(mem_sbrk(h, size), LAMBDA r :
       IF r.bp = SBRK_FAIL
       THEN [h |-> mem_sbrk(h, size).h, bp |-> NULL, nsbrk |-> 2]
       ELSE Let(PutTags(r.h, r.bp, PACK(size, 0)), LAMBDA h1 :
            Let(PUT(h1, HDRP(NEXT_BLKP(h1, r.bp)), PACK(0, 1)), LAMBDA h2 :
            Let(coalesce(h2, r.bp), LAMBDA c :
                [h |-> c.h, bp |-> c.bp, nsbrk |-> 1]))))

\* Returns [h, bp, nsbrk]: bp = NULL when the backing store refuses;
\* nsbrk counts the calls of mem_sbrk.
extend_heap(h, words) ==
    LET size == IF words % 2 = 1 THEN (words + 1) * WSIZE ELSE words * WSIZE
    IN Let(mem_sbrk(h, size), LAMBDA r :
       IF r.bp = SBRK_FAIL
       THEN [h |-> h, bp |-> NULL, nsbrk |-> 1]
       ELSE Let(PutTags(r.h, r.bp, PACK(size, 0)), LAMBDA h1 :
            Let(PUT(h1, HDRP(NEXT_BLKP(h1, r.bp)), PACK(0, 1)), LAMBDA h2 :
            Let(coalesce(h2, r.bp), LAMBDA c :
                [h |-> c.h, bp |-> c.bp, nsbrk |-> 1]))))

\* ------------------------------------------------------------- mm_init
EmptyHeap == [mem |-> << >>, heap_p |-> NULL]

\* mm_init without the alignment padding word in front of the prologue.
mm_init_nopad ==
    Let(mem_sbrk(EmptyHeap, 5 * WSIZE), LAMBDA r :
    IF r.bp = SBRK_FAIL
    THEN [h |-> EmptyHeap, ret |-> -1]
    ELSE LET p == r.bp
             h0 == [r.h EXCEPT !.heap_p = p]
             h2 == PUT(h0, p, PACK(MIN_BLKSIZE, 1))
             h3 == PUT(h2, p + 1 * WSIZE, 0)
             h4 == PUT(h3, p + 2 * WSIZE, 0)
             h5 == PUT(h4, p + 3 * WSIZE, PACK(MIN_BLKSIZE, 1))
             h6 == PUT(h5, p + 4 * WSIZE, PACK(0, 1))
             h7 == [h6 EXCEPT !.heap_p = p + WSIZE]
         IN Let(h7, LAMBDA h8 :
            Let(extend_heap(h8, CHUNKSIZE \div WSIZE), LAMBDA e :
            IF e.bp = NULL
            THEN [h |-> e.h, ret |-> -1]
            ELSE Let(SETNEXT(e.h, e.h.heap_p, NEXT_BLKP(e.h, e.h.heap_p)),
                     LAMBDA h9 :
                 LET bp == NEXT(h9, h9.heap_p)
                 IN [h |-> SETPREV(SETNEXT(h9, bp, 0), bp, 0), ret |-> 0]))))

\* mm_init from the empty arena: returns [h, ret].
mm_init ==
    Let(mem_sbrk(EmptyHeap, 6 * WSIZE), LAMBDA r :
    IF r.bp = SBRK_FAIL
    THEN [h |-> EmptyHeap, ret |-> -1]
    ELSE LET p == r.bp
             h0 == [r.h EXCEPT !.heap_p = p]
             h1 == PUT(h0, p, 0)
             h2 == PUT(h1, p + 1 * WSIZE, PACK(MIN_BLKSIZE, 1))
             h3 == PUT(h2, p + 2 * WSIZE, 0)
             h4 == PUT(h3, p + 3 * WSIZE, 0)
             h5 == PUT(h4, p + 4 * WSIZE, PACK(MIN_BLKSIZE, 1))
             h6 == PUT(h5, p + 5 * WSIZE, PACK(0, 1))
             h7 == [h6 EXCEPT !.heap_p = p + DSIZE]
         IN Let(h7, LAMBDA h8 :
            Let(extend_heap(h8, CHUNKSIZE \div WSIZE), LAMBDA e :
            IF e.bp = NULL
            THEN [h |-> e.h, ret |-> -1]
            ELSE Let(SETNEXT(e.h, e.h.heap_p, NEXT_BLKP(e.h, e.h.heap_p)),
                     LAMBDA h9 :
                 LET bp == NEXT(h9, h9.heap_p)
                 IN [h |-> SETPREV(SETNEXT(h9, bp, 0), bp, 0), ret |-> 0]))))

\* --------------------------------------------------------------- place
\* place that never splits.
place_whole(h, bp, asize) ==
    LET csize == GET_SIZE(h, HDRP(bp))
    IN Let(rmv_from_list(h, bp), LAMBDA h1 :
           PutTags(h1, bp, PACK(csize, 1)))

\* place that puts the fragment of a split at the front of the free list.
place_front(h, bp, asize) ==
    LET csize == GET_SIZE(h, HDRP(bp))
    IN IF csize < asize \/ csize - asize >= MIN_BLKSIZE
       THEN Let(rmv_from_list(h, bp), LAMBDA h1 :
            Let(PutTags(h1, bp, PACK(asize, 1)), LAMBDA h2 :
            Let(PutTags(h2, NEXT_BLKP(h2, bp), PACK(csize - asize, 0)),
                LAMBDA h3 : insert_front_list(h3, NEXT_BLKP(h3, bp)))))
       ELSE Let(rmv_from_list(h, bp), LAMBDA h1 :
                PutTags(h1, bp, PACK(csize, 1)))

\* place that leaves the block as it is.
place_none(h, bp, asize) == h

\* (csize - asize) >= MIN_BLKSIZE is an unsigned comparison: when
\* csize < asize the difference wraps to a huge value and the test passes.
place(h, bp, asize) ==
    LET csize == GET_SIZE(h, HDRP(bp))
    IN IF csize < asize \/ csize - asize >= MIN_BLKSIZE
       THEN Let(PutTags(h, bp, PACK(asize, 1)), LAMBDA h2 :
            Let(NEXT_BLKP(h2, bp), LAMBDA nfbp :
            Let(IF PREV(h2, bp) # 0 /\ NEXT(h2, bp) # 0
                THEN LET orig_next == NEXT(h2, bp)
                         orig_prev == PREV(h2, bp)
                     IN SETPREV(SETNEXT(SETPREV(SETNEXT(h2,
                            nfbp, orig_next),
                            nfbp, orig_prev),
                            orig_prev, nfbp),
                            orig_next, nfbp)
                ELSE IF PREV(h2, bp) = 0 /\ NEXT(h2, bp) # 0
                THEN LET orig_next == NEXT(h2, bp)
                     IN SETPREV(SETNEXT(SETPREV(SETNEXT(h2,
                            h2.heap_p, nfbp),
                            nfbp, 0),
                            nfbp, orig_next),
                            orig_next, nfbp)
                ELSE IF PREV(h2, bp) # 0 /\ NEXT(h2, bp) = 0
                THEN LET orig_prev == PREV(h2, bp)
                     IN SETPREV(SETNEXT(SETNEXT(h2,
                            orig_prev, nfbp),
                            nfbp, 0),
                            nfbp, orig_prev)
                ELSE SETPREV(SETNEXT(SETNEXT(h2,
                            h2.heap_p, nfbp),
                            nfbp, 0),
                            nfbp, 0),
                LAMBDA h3 : PutTags(h3, nfbp, PACK(csize - asize, 0)))))
       ELSE Let(rmv_from_list(h, bp), LAMBDA h1 :
                PutTags(h1, bp, PACK(csize, 1)))

\* ------------------------------------------------------------ find_fit
RECURSIVE find_fit_loop(_, _, _)
find_fit_loop(h, bp, asize) ==
    IF asize <= GET_SIZE(h, HDRP(bp))
    THEN bp
    ELSE IF NEXT(h, bp) # 0
    THEN find_fit_loop(h, NEXT(h, bp), asize)
    ELSE NULL

\* find_fit that looks at the first block of the free list only.
find_fit_head(h, asize) ==
    IF NEXT(h, h.heap_p) = 0
    THEN NULL
    ELSE IF asize <= GET_SIZE(h, HDRP(NEXT(h, h.heap_p)))
    THEN NEXT(h, h.heap_p)
    ELSE NULL

find_fit(h, asize) ==
    IF NEXT(h, h.heap_p) = 0
    THEN NULL
    ELSE find_fit_loop(h, NEXT(h, h.heap_p), asize)

\* ----------------------------------------------------------- mm_malloc
\* adjsize that adds the overhead and does not round up to DSIZE.
adjsize_noround(size) ==
    IF size <= DSIZE
    THEN 2 * DSIZE
    ELSE size + DSIZE

\* adjsize that leaves no room for the header and the footer.
adjsize_nooverhead(size) ==
    IF size <= DSIZE
    THEN 2 * DSIZE
    ELSE DSIZE * ((size + (DSIZE - 1)) \div DSIZE)

\* size_t is 32 bits wide and unsigned. A value v is held as v when
\* v < 2^31 and as v - 2^32 otherwise, so that every value of the type is
\* an integer the checker can hold; on values below 2^31 the operators
\* below are the ordinary ones.
MaxInt32 == 2147483647
MinInt32 == (-MaxInt32) - 1

\* a + b modulo 2^32.
AddU(a, b) ==
    IF a >= 0 /\ b >= 0
    THEN IF a > MaxInt32 - b
         THEN (a + MinInt32) + (b + MinInt32)
         ELSE a + b
    ELSE IF a < 0 /\ b < 0
    THEN IF a < MinInt32 - b
         THEN (a - MinInt32) + (b - MinInt32)
         ELSE a + b
    ELSE a + b

\* a <= b, unsigned.
LeU(a, b) == IF (a < 0) = (b < 0) THEN a <= b ELSE a >= 0

\* a / d, unsigned, for a divisor d of 2 or more.
DivU(a, d) ==
    IF a >= 0
    THEN a \div d
    ELSE LET lo == a - MinInt32
         IN (lo \div d) + (MaxInt32 \div d)
            + (((lo % d) + (MaxInt32 % d) + 1) \div d)

\* k * b modulo 2^32, for a small natural number k.
RECURSIVE MulU(_, _)
MulU(k, b) == IF k = 0 THEN 0 ELSE AddU(MulU(k - 1, b), b)

\* The adjusted block size of a nonzero request, computed in size_t.
adjsize(size) ==
    IF LeU(size, DSIZE)
    THEN 2 * DSIZE
    ELSE Let(DivU(AddU(AddU(size, DSIZE), DSIZE - 1), DSIZE),
             LAMBDA q : MulU(DSIZE, q))

\* mm_malloc without the check for a request of 0 bytes.
mm_malloc_nozero(h, size) ==
    LET asize == adjsize(size)
        extsize == MAX(asize, CHUNKSIZE)
    IN Let(find_fit(h, asize), LAMBDA bp :
       IF bp # NULL
       THEN [h |-> place(h, bp, asize), ret |-> bp, nsbrk |-> 0]
       ELSE Let(extend_heap(h, extsize \div WSIZE), LAMBDA e :
            IF e.bp = NULL
            THEN [h |-> e.h, ret |-> NULL, nsbrk |-> e.nsbrk]
            ELSE [h |-> place(e.h, e.bp, asize), ret |-> e.bp,
                  nsbrk |-> e.nsbrk]))

\* Returns [h, ret, nsbrk].
mm_malloc(h, size) ==
    IF size = 0
    THEN [h |-> h, ret |-> NULL, nsbrk |-> 0]
    ELSE LET asize == adjsize(size)
             extsize == MAX(asize, CHUNKSIZE)
         IN Let(find_fit(h, asize), LAMBDA bp :
            IF bp # NULL
            THEN [h |-> place(h, bp, asize), ret |-> bp, nsbrk |-> 0]
            ELSE Let(extend_heap(h, extsize \div WSIZE), LAMBDA e :
                 IF e.bp = NULL
                 THEN [h |-> e.h, ret |-> NULL, nsbrk |-> e.nsbrk]
                 ELSE [h |-> place(e.h, e.bp, asize), ret |-> e.bp,
                       nsbrk |-> e.nsbrk]))

\* ------------------------------------------------------------- mm_free
\* mm_free that puts the block on the free list without a call of coalesce.
mm_free_nocoalesce(h, bp) ==
    LET size == GET_SIZE(h, HDRP(bp))
    IN Let(PutTags(h, bp, PACK(size, 0)), LAMBDA h1 :
           insert_front_list(h1, bp))

mm_free(h, bp) ==
    LET size == GET_SIZE(h, HDRP(bp))
    IN Let(PutTags(h, bp, PACK(size, 0)), LAMBDA h1 : coalesce(h1, bp).h)

\* ---------------------------------------------------------- mm_realloc
\* memcpy that copies nothing.
memcpy_none(h, dst, src, n) == h

\* memcpy with source and destination exchanged.
memcpy_swapped(h, dst, src, n) ==
    [h EXCEPT !.mem =
        SubSeq(h.mem, 1, Idx(src) - 1)
        \o SubSeq(h.mem, Idx(dst), Idx(dst) + n \div WSIZE - 1)
        \o SubSeq(h.mem, Idx(src) + n \div WSIZE, Len(h.mem))]

\* memcpy of n bytes (n a multiple of WSIZE) between disjoint regions.
memcpy(h, dst, src, n) ==
    [h EXCEPT !.mem =
        SubSeq(h.mem, 1, Idx(dst) - 1)
        \o SubSeq(h.mem, Idx(src), Idx(src) + n \div WSIZE - 1)
        \o SubSeq(h.mem, Idx(dst) + n \div WSIZE, Len(h.mem))]

\* Returns [h, ret, nsbrk, fault]. GET_SIZE(HDRP(oldptr)) dereferences
\* oldptr - 4 without a check. When that word is outside the arena (a
\* null oldptr) the access is undefined behaviour. Whatever the read
\* yields, the calls behind it access the same addresses again (memcpy
\* reads from oldptr, mm_free reads and writes the word at oldptr - 4),
\* and no page is mapped at the top or at the bottom of the address space:
\* every outcome is a memory fault that ends the process after mm_malloc
\* has returned, fault = TRUE.
mm_realloc(h, ptr, size) ==
    LET oldptr == ptr
        asize == ALIGN(size)
    IN Let(mm_malloc(h, size), LAMBDA m :
       LET newptr == m.ret
       IN IF newptr = NULL
          THEN [h |-> m.h, ret |-> NULL, nsbrk |-> m.nsbrk, fault |-> FALSE]
          ELSE IF ~InArena(m.h, HDRP(oldptr))
          THEN [h |-> m.h, ret |-> NULL, nsbrk |-> m.nsbrk, fault |-> TRUE]
          ELSE LET oldsize == GET_SIZE(m.h, HDRP(oldptr))
                   copySize == IF asize < oldsize THEN asize ELSE oldsize
               IN Let(memcpy(m.h, newptr, oldptr, copySize), LAMBDA h1 :
                      [h |-> mm_free(h1, oldptr), ret |-> newptr,
                       nsbrk |-> m.nsbrk, fault |-> FALSE]))

\* --------------------------------------------------------------- state
\* mem, heap_p : the arena and the global heap_p of mm.c
\* live        : the client's live allocations: [ptr, n, w] with n the size
\*               requested and w the leading payload words that hold data
\*               of the client
\* last        : the last call made and what it returned
\* fault       : the process has ended on a memory fault
\* nops        : the calls made so far
VARIABLES mem, heap_p, live, last, fault, nops

vars == <<mem, heap_p, live, last, fault, nops>>

H == [mem |-> mem, heap_p |-> heap_p]

Call(op, ptr, size, ret, nsbrk) ==
    [op |-> op, ptr |-> ptr, size |-> size, ret |-> ret, nsbrk |-> nsbrk]

LivePtrs == {a.ptr : a \in live}

Alloc(p) == CHOOSE a \in live : a.ptr = p

\* The words a request of n bytes covers.
Words(n) == (n + WSIZE - 1) \div WSIZE

Min(x, y) == IF x < y THEN x ELSE y

\* The word the client writes at word i of an allocation.
Pattern(i) == i + 1

\* The client fills the n bytes at p.
Fill(h, p, n) ==
    Let(h, LAMBDA g :
        [g EXCEPT !.mem = SubSeq(g.mem, 1, Idx(p) - 1)
                          \o [i \in 1..Words(n) |-> Pattern(i - 1)]
                          \o SubSeq(g.mem, Idx(p) + Words(n), Len(g.mem))])

\* Dead words. The interior of a free block (the words between its two
\* link words and its footer) and the payload words of an allocated block
\* that hold no data of the client are dead: mm.c writes a header, a
\* footer or a link there before it reads one, and the client may not read
\* them. The model keeps the arena up to its dead words, which it holds at
\* 0 (the value the backing store hands out), so that two arenas that
\* differ only in dead words are one state. Dead(h, l) is h with the dead
\* words cleared, l being the live allocations.
Zeros(k) == [i \in 1..k |-> 0]

RECURSIVE DeadFrom(_, _, _)
DeadFrom(h, l, bp) ==
    LET size == GET_SIZE(h, HDRP(bp))
        first == Idx(HDRP(bp))
        nw == size \div WSIZE
        w == IF \E a \in l : a.ptr = bp
             THEN Min((CHOOSE a \in l : a.ptr = bp).w, nw - 2)
             ELSE 0
    IN IF size < MIN_BLKSIZE \/ first + nw > Len(h.mem)
       THEN SubSeq(h.mem, first, Len(h.mem))
       ELSE IF GET_ALLOC(h, HDRP(bp)) = 0
       THEN SubSeq(h.mem, first, first + 2) \o Zeros(nw - 4)
            \o <<h.mem[first + nw - 1]>> \o DeadFrom(h, l, bp + size)
       ELSE SubSeq(h.mem, first, first + w) \o Zeros(nw - 2 - w)
            \o <<h.mem[first + nw - 1]>> \o DeadFrom(h, l, bp + size)

Dead(h, l) ==
    Let(h, LAMBDA g :
        [g EXCEPT !.mem = SubSeq(g.mem, 1, Idx(g.heap_p) + 2)
                          \o DeadFrom(g, l, g.heap_p + MIN_BLKSIZE)])

Init ==
    /\ mm_init.ret = 0
    /\ mem = mm_init.h.mem
    /\ heap_p = mm_init.h.heap_p
    /\ live = {}
    /\ last = Call("init", NULL, 0, 0, 1)
    /\ fault = FALSE
    /\ nops = 0

\* mm_malloc(size); the client fills the block it is given.
Malloc(size) ==
    /\ ~fault
    /\ nops < MaxOps
    /\ Cardinality(live) < MaxLive
    /\ \E r \in {mm_malloc(H, size)} :
          /\ live' = IF r.ret # NULL
                     THEN live \cup {[ptr |-> r.ret, n |-> size,
                                      w |-> Words(size)]}
                     ELSE live
          /\ mem' = IF r.ret # NULL
                    THEN Fill(Dead(r.h, live'), r.ret, size).mem
                    ELSE Dead(r.h, live').mem
          /\ heap_p' = r.h.heap_p
          /\ last' = Call("malloc", NULL, size, r.ret, r.nsbrk)
    /\ nops' = nops + 1
    /\ UNCHANGED fault

\* mm_free(p), p a live allocation.
Free(p) ==
    /\ ~fault
    /\ nops < MaxOps
    /\ p \in LivePtrs
    /\ live' = {a \in live : a.ptr # p}
    /\ \E h1 \in {mm_free(H, p)} :
          /\ mem' = Dead(h1, live').mem
          /\ heap_p' = h1.heap_p
    /\ last' = Call("free", p, 0, NULL, 0)
    /\ nops' = nops + 1
    /\ UNCHANGED fault

\* mm_realloc(p, size), p a live allocation or NULL. The words of client
\* data the new block holds are those of the old one that the new size
\* covers. A memory fault ends the process: the arena stays as the fault
\* found it, and no further call is made.
Realloc(p, size) ==
    /\ ~fault
    /\ nops < MaxOps
    /\ \/ p \in LivePtrs
       \/ p = NULL /\ Cardinality(live) < MaxLive
    /\ \E r \in {mm_realloc(H, p, size)} :
          /\ fault' = r.fault
          /\ live' = IF r.ret # NULL
                     THEN {a \in live : a.ptr # p}
                          \cup {[ptr |-> r.ret, n |-> size,
                                 w |-> IF p = NULL THEN 0
                                       ELSE Min(Alloc(p).w, Words(size))]}
                     ELSE live
          /\ mem' = Dead(r.h, live').mem
          /\ heap_p' = r.h.heap_p
          /\ last' = Call("realloc", p, size, r.ret, r.nsbrk)
    /\ nops' = nops + 1

Next ==
    \/ \E size \in Sizes : Malloc(size)
    \/ \E p \in LivePtrs : Free(p)
    \/ \E p \in LivePtrs \cup {NULL}, size \in ReSizes : Realloc(p, size)

Spec == Init /\ [][Next]_vars

\* ------------------------------------------- the size adjustment alone
\* The largest distance of a request size from 0 and from 2^32.
MaxAdj == 40

\* Request sizes 1..MaxAdj and 2^32 - MaxAdj..2^32 - 1.
AdjSizes == (1..MaxAdj) \cup {-k : k \in 1..MaxAdj}

\* A request of some size is about to be adjusted.
InitAdj ==
    /\ mm_init.ret = 0
    /\ mem = mm_init.h.mem
    /\ heap_p = mm_init.h.heap_p
    /\ live = {}
    /\ \E n \in AdjSizes : last = Call("request", NULL, n, 0, 0)
    /\ fault = FALSE
    /\ nops = 0

\* mm_malloc computes adjsize from the size it is given.
Adjust ==
    /\ last.op = "request"
    /\ last' = Call("adjsize", NULL, last.size, adjsize(last.size), 0)
    /\ nops' = nops + 1
    /\ UNCHANGED <<mem, heap_p, live, fault>>

NextAdj == Adjust

SpecAdj == InitAdj /\ [][NextAdj]_vars

\* ------------------------------------------------------------ the walks
\* The blocks of the arena walk: from the block behind the prologue, by
\* NEXT_BLKP, up to the epilogue header (size 0).
RECURSIVE BlocksFrom(_, _)
BlocksFrom(h, bp) ==
    IF ~InArena(h, HDRP(bp)) \/ GET_SIZE(h, HDRP(bp)) = 0
    THEN {}
    ELSE {bp} \cup BlocksFrom(h, NEXT_BLKP(h, bp))

Blocks(h) == BlocksFrom(h, NEXT_BLKP(h, h.heap_p))

\* The blocks met from bp by following next links, in order; the walk
\* stops at a link that is 0, at one that leaves the arena, and after fuel
\* blocks.
RECURSIVE ListFrom(_, _, _)
ListFrom(h, bp, fuel) ==
    IF bp = 0 \/ fuel = 0 \/ ~InArena(h, bp) \/ ~InArena(h, bp + WSIZE)
    THEN << >>
    ELSE <<bp>> \o ListFrom(h, NEXT(h, bp), fuel - 1)

\* The free list: the walk from the first free block, NEXT(heap_p).
FreeList(h) == ListFrom(h, NEXT(h, h.heap_p), Len(h.mem))

FreeListSet(h) == {FreeList(h)[i] : i \in 1..Len(FreeList(h))}

\* No block of the free list has asize bytes.
NoFit(h, asize) == \A b \in FreeListSet(h) : GET_SIZE(h, HDRP(b)) < asize

\* The bytes an extension for a block of asize bytes asks for: the larger of
\* asize and CHUNKSIZE.
Growth(asize) == IF asize > CHUNKSIZE THEN asize ELSE CHUNKSIZE

\* The heap after a step, and whether the step is a call.
HNext == [mem |-> mem', heap_p |-> heap_p']

Called(op) == nops' = nops + 1 /\ last'.op = op

\* -------------------------------------------------------------- claims
\* C1: a non-null pointer returned by mm_malloc(n), n > 0, is the payload
\* start of a block of the arena walk whose header has the allocated flag
\* set and whose size less the 8 bytes of header and footer is at least n,
\* whether the block was found by find_fit or made by extending the arena.
C1_Capacity ==
    (last.op = "malloc" /\ last.size > 0 /\ last.ret # NULL) =>
        /\ last.ret \in Blocks(H)
        /\ GET_ALLOC(H, HDRP(last.ret)) = 1
        /\ GET_SIZE(H, HDRP(last.ret)) - DSIZE >= last.size

\* mm_malloc has returned a block from an extension of the arena while the
\* client holds a block it was given before.
C1_Witness ==
    /\ last.op = "malloc"
    /\ last.ret # NULL
    /\ last.nsbrk = 1
    /\ \E a \in live : a.ptr # last.ret

\* C2: the arena base being a multiple of 8, every non-null address that
\* mm_malloc or mm_realloc returns is a multiple of 8.
C2_Aligned ==
    (last.op \in {"malloc", "realloc"} /\ last.ret # NULL) =>
        /\ HeapBase % ALIGNMENT = 0
        /\ last.ret % ALIGNMENT = 0

\* mm_realloc has returned a block that find_fit found.
C2_Witness ==
    /\ last.op = "realloc"
    /\ last.ret # NULL
    /\ last.nsbrk = 0

C4_OutOfMemory ==
    [][(/\ Called("malloc") \/ Called("realloc")
        /\ last'.size > 0
        /\ NoFit(H, adjsize(last'.size))
        /\ mem_sbrk(H, Growth(adjsize(last'.size))).bp = SBRK_FAIL)
       => /\ last'.ret = NULL
          /\ last'.nsbrk = 1
          /\ mem' = mem
          /\ heap_p' = heap_p
          /\ live' = live
          /\ ~fault']_vars

\* mm_realloc of a live block has failed for want of memory.
C4_Witness ==
    /\ last.op = "realloc"
    /\ last.ptr # NULL
    /\ last.size > 0
    /\ last.ret = NULL
    /\ last.nsbrk = 1

\* C5: mm_malloc(0) returns NULL without a call of mem_sbrk and leaves the
\* arena (its size, every header, footer and link, heap_p) as it was.
C5_ZeroSize ==
    [][(Called("malloc") /\ last'.size = 0)
       => /\ last'.ret = NULL
          /\ last'.nsbrk = 0
          /\ mem' = mem
          /\ heap_p' = heap_p
          /\ live' = live]_vars

\* mm_malloc(0) has been called with blocks held and two blocks free.
C5_Witness ==
    /\ last.op = "malloc"
    /\ last.size = 0
    /\ live # {}
    /\ Len(FreeList(H)) >= 2

\* C6: mm_realloc(NULL, n), n > 0, reads no word outside the arena, and
\* its result and the heap it leaves are those of mm_malloc(n).
C6_NullRealloc ==
    [][(Called("realloc") /\ last'.ptr = NULL /\ last'.size > 0)
       => /\ ~fault'
          /\ last'.ret = mm_malloc(H, last'.size).ret
          /\ HNext = Dead(mm_malloc(H, last'.size).h, live')]_vars

\* C7: when mm_free(p) returns, the first block of the free list is the
\* free block whose span holds p, and its prev link is 0; a mm_malloc(n)
\* made next whose adjusted size that block has returns it; and it is p
\* when the block in front of p in the arena was allocated.
C7_LifoReuse ==
    [][Called("free")
       => LET p == last'.ptr
              B == NEXT(HNext, heap_p')
          IN /\ B \in Blocks(HNext)
             /\ GET_ALLOC(HNext, HDRP(B)) = 0
             /\ B <= p
             /\ p < B + GET_SIZE(HNext, HDRP(B)) - DSIZE
             /\ PREV(HNext, B) = 0
             /\ \A n \in Sizes \ {0} :
                   adjsize(n) <= GET_SIZE(HNext, HDRP(B))
                   => mm_malloc(HNext, n).ret = B
             /\ GET_ALLOC(H, HDRP(PREV_BLKP(H, p))) = 1 => B = p]_vars

\* mm_free has merged the block with the free block in front of it, and
\* the free list holds another block.
C7_Witness ==
    /\ last.op = "free"
    /\ NEXT(H, heap_p) # 0
    /\ NEXT(H, heap_p) < last.ptr
    /\ Len(FreeList(H)) >= 2

\* C8: a mm_malloc(n) that succeeds changes the size of the arena exactly
\* when no block of the free list has the adjusted size, and then by one
\* call of mem_sbrk for max(adjusted size, CHUNKSIZE) bytes, which is at
\* least ALIGN(n); mm_free leaves the size of the arena alone; and no call
\* makes the arena smaller.
C8_ArenaGrowth ==
    [][/\ (Called("malloc") /\ last'.ret # NULL)
          => LET asize == adjsize(last'.size)
             IN /\ (Len(mem') # Len(mem)) <=> NoFit(H, asize)
                /\ NoFit(H, asize)
                   => /\ last'.nsbrk = 1
                      /\ mem_heapsize(HNext) - mem_heapsize(H)
                            = Growth(asize)
                      /\ Growth(asize) >= ALIGN(last'.size)
                /\ ~NoFit(H, asize) => last'.nsbrk = 0
       /\ Called("free") => Len(mem') = Len(mem)
       /\ Len(mem') >= Len(mem)]_vars

\* mm_malloc of a block smaller than CHUNKSIZE has extended an arena that
\* had been extended before.
C8_Witness ==
    /\ last.op = "malloc"
    /\ last.ret # NULL
    /\ last.nsbrk = 1
    /\ adjsize(last.size) < CHUNKSIZE
    /\ mem_heapsize(H) > 6 * WSIZE + 2 * CHUNKSIZE - 1

\* C9: after mm_init and after every call, the blocks met from the first
\* block of the free list by following next links are exactly the blocks of
\* the arena walk whose header has the allocated flag clear.
C9_FreeListMembership ==
    FreeListSet(H) = {b \in Blocks(H) : GET_ALLOC(H, HDRP(b)) = 0}

\* place has split a block that had a block on either side in the free
\* list: the remainder stands between them.
C9_Witness ==
    /\ last.op = "malloc"
    /\ last.ret # NULL
    /\ LET nfbp == NEXT_BLKP(H, last.ret)
       IN /\ nfbp \in FreeListSet(H)
          /\ PREV(H, nfbp) # 0
          /\ NEXT(H, nfbp) # 0

\* C10: after every call, for every block B of the free list, the block
\* its next link names has B as prev link and the block its prev link names
\* has B as next link; the first block has prev link 0; exactly one block
\* has next link 0 when the list is not empty; and the walk along the next
\* links meets no block twice and ends at a link that is 0.
C10_ListSymmetry ==
    LET L == FreeList(H)
    IN /\ \A i \in 1..Len(L) :
             /\ NEXT(H, L[i]) # 0
                => /\ InArena(H, NEXT(H, L[i]) + WSIZE)
                   /\ PREV(H, NEXT(H, L[i])) = L[i]
             /\ PREV(H, L[i]) # 0
                => /\ InArena(H, PREV(H, L[i]))
                   /\ NEXT(H, PREV(H, L[i])) = L[i]
       /\ L # << >>
          => /\ PREV(H, L[1]) = 0
             /\ Cardinality({i \in 1..Len(L) : NEXT(H, L[i]) = 0}) = 1
             /\ NEXT(H, L[Len(L)]) = 0
       /\ \A i, j \in 1..Len(L) : i # j => L[i] # L[j]

\* The free list holds three blocks.
C10_Witness == Len(FreeList(H)) >= 3

\* The free blocks of the arena walk.
FreeBlocks(h) == {b \in Blocks(h) : GET_ALLOC(h, HDRP(b)) = 0}

\* C11: after mm_init and after every call, no block of the arena walk is
\* free while the block behind it in the arena is free too.
C11_NoAdjacentFree ==
    \A b \in Blocks(H) :
       ~(/\ GET_ALLOC(H, HDRP(b)) = 0
         /\ InArena(H, HDRP(b) + GET_SIZE(H, HDRP(b)))
         /\ GET(H, HDRP(b) + GET_SIZE(H, HDRP(b))) % 2 = 0)

\* mm_malloc has extended the arena, the new block was merged with the
\* free block at the end of the old arena (the block returned starts below
\* the old end), and place has left a free block behind it.
C11_Witness ==
    /\ last.op = "malloc"
    /\ last.ret # NULL
    /\ last.nsbrk = 1
    /\ last.ret < HeapBase + mem_heapsize(H) - Growth(adjsize(last.size))
    /\ NEXT_BLKP(H, last.ret) \in FreeBlocks(H)
    /\ live # {}

\* C12: after every call, every free block of the arena walk has, at its
\* header address + size - 4, a footer word equal to its header word, and
\* the word is the size with the allocated flag clear.
C12_HeaderFooter ==
    \A b \in FreeBlocks(H) :
       LET hdr == b - WSIZE
           size == GET_SIZE(H, hdr)
       IN /\ InArena(H, hdr + size - WSIZE)
          /\ H.mem[Idx(hdr + size - WSIZE)] = H.mem[Idx(hdr)]
          /\ H.mem[Idx(hdr)] = size

\* place has split a block, and the arena holds another free block.
C12_Witness ==
    /\ last.op = "malloc"
    /\ last.ret # NULL
    /\ NEXT_BLKP(H, last.ret) \in FreeBlocks(H)
    /\ Cardinality(FreeBlocks(H)) >= 2

\* The address the walk from bp by block sizes stops at: the first block
\* whose header is outside the arena or holds a size below 8.
RECURSIVE WalkEnd(_, _)
WalkEnd(h, bp) ==
    IF ~InArena(h, HDRP(bp)) \/ GET_SIZE(h, HDRP(bp)) = 0
    THEN bp
    ELSE WalkEnd(h, NEXT_BLKP(h, bp))

RECURSIVE SumSizes(_, _)
SumSizes(h, B) ==
    IF B = {}
    THEN 0
    ELSE LET b == CHOOSE x \in B : TRUE
         IN GET_SIZE(h, HDRP(b)) + SumSizes(h, B \ {b})

\* C13: after every call, the walk by block sizes from the first block
\* behind the prologue meets only blocks whose size is a multiple of 8 and
\* at least 16 and stops at the last word of the arena, which holds the
\* epilogue header (size 0, allocated); the prologue header and footer hold
\* (16, allocated); and the sizes of the blocks add up to the size of the
\* arena less 24 bytes.
C13_BlockChain ==
    /\ \A b \in Blocks(H) :
          /\ H.mem[Idx(b - WSIZE)] % 8 \in {0, 1}
          /\ GET_SIZE(H, HDRP(b)) >= 16
    /\ WalkEnd(H, heap_p + MIN_BLKSIZE) - WSIZE
          = HeapBase + mem_heapsize(H) - WSIZE
    /\ H.mem[Len(mem)] = 1
    /\ H.mem[Idx(heap_p - WSIZE)] = 17
    /\ H.mem[Idx(heap_p + DSIZE)] = 17
    /\ SumSizes(H, Blocks(H)) = mem_heapsize(H) - 24

\* The arena has been extended and holds four blocks or more.
C13_Witness ==
    /\ mem_heapsize(H) > 6 * WSIZE + CHUNKSIZE
    /\ Cardinality(Blocks(H)) >= 4

\* C14: mm_free(p) of an allocated block B leaves a free block that starts
\* at the block in front of B when that was free and at B otherwise, whose
\* size is that of B and of its neighbours in the arena that were free, and
\* the free list has one entry more, less one for each such neighbour.
C14_Coalescing ==
    [][Called("free")
       => LET p == last'.ptr
              size == GET_SIZE(H, HDRP(p))
              prev == p - GET_SIZE(H, p - DSIZE)
              next == p + size
              prev_free == GET_ALLOC(H, HDRP(prev)) = 0
              next_free == GET_ALLOC(H, HDRP(next)) = 0
              start == IF prev_free THEN prev ELSE p
              total == size
                       + (IF prev_free THEN GET_SIZE(H, HDRP(prev)) ELSE 0)
                       + (IF next_free THEN GET_SIZE(H, HDRP(next)) ELSE 0)
              absorbed == (IF prev_free THEN 1 ELSE 0)
                          + (IF next_free THEN 1 ELSE 0)
          IN /\ GET_ALLOC(H, HDRP(p)) = 1
             /\ start \in FreeBlocks(HNext)
             /\ GET_SIZE(HNext, HDRP(start)) = total
             /\ start \in FreeListSet(HNext)
             /\ Len(FreeList(HNext)) = Len(FreeList(H)) + 1 - absorbed]_vars

\* The client has freed its last block, which was merged with the free
\* block in front of it: one free block is left.
C14_Witness ==
    /\ last.op = "free"
    /\ live = {}
    /\ NEXT(H, heap_p) # 0
    /\ NEXT(H, heap_p) < last.ptr
    /\ Len(FreeList(H)) = 1

\* The sizes find_fit is asked for: 16 and, for every block of the free
\* list, its size and the multiples of 8 next to it.
FitSizes(h) ==
    {s \in {16} \cup UNION {{GET_SIZE(h, HDRP(b)) - 8, GET_SIZE(h, HDRP(b)),
                             GET_SIZE(h, HDRP(b)) + 8} : b \in FreeListSet(h)} :
        s >= 16}

\* The first block in list order that has s bytes, NULL when there is none.
FirstFit(h, s) ==
    LET L == FreeList(h)
        fits == {i \in 1..Len(L) : GET_SIZE(h, HDRP(L[i])) >= s}
    IN IF fits = {}
       THEN NULL
       ELSE L[CHOOSE i \in fits : \A j \in fits : i <= j]

\* C15: on every free list the calls build and for every size s asked,
\* find_fit(s) returns the first block in list order whose size is at least
\* s, and NULL exactly when the list is empty or has no such block.
C15_FirstFit ==
    \A s \in FitSizes(H) : find_fit(H, s) = FirstFit(H, s)

\* find_fit passes two blocks of the free list and returns the third.
C15_Witness ==
    /\ Len(FreeList(H)) >= 3
    /\ \E s \in FitSizes(H) : find_fit(H, s) = FreeList(H)[3]

\* The heaps and blocks mm_malloc calls place on: a block of the free list,
\* or the block extend_heap returns.
Placeable ==
    {[h |-> H, bp |-> X] : X \in FreeListSet(H)}
    \cup {[h |-> e.h, bp |-> e.bp] :
            e \in {r \in {extend_heap(H, g \div WSIZE) :
                            g \in {Growth(adjsize(n)) : n \in Sizes \ {0}}} :
                       r.bp # NULL}}

\* The sizes asked of a block of c bytes: the smallest, and the two
\* largest, which leave 8 bytes and none.
PlaceSizes(c) == {s \in {MIN_BLKSIZE, c - DSIZE, c} : s >= MIN_BLKSIZE /\ s <= c}

\* C16: place(X, s) on a free block X of c >= s bytes: when c - s >= 16, X
\* becomes an allocated block of s bytes followed by a free block of c - s
\* bytes, header and footer written; when c - s < 16, X becomes an allocated
\* block of c bytes; either way the span ends where it ended, the headers
\* of all other blocks are untouched, and no free block of less than 16
\* bytes comes to be.
C16_SplitPolicy ==
    \A a \in Placeable :
       LET X == a.bp
           c == GET_SIZE(a.h, HDRP(X))
           B == Blocks(a.h) \ {X}
       IN \A s \in PlaceSizes(c) :
             \A q \in {place(a.h, X, s)} :
                /\ Len(q.mem) = Len(a.h.mem)
                /\ q.mem[Idx(X + c - WSIZE)] = a.h.mem[Idx(X + c - WSIZE)]
                /\ \A b \in B : q.mem[Idx(b - WSIZE)] = a.h.mem[Idx(b - WSIZE)]
                /\ IF c - s >= 16
                   THEN /\ q.mem[Idx(X - WSIZE)] = s + 1
                        /\ q.mem[Idx(X + s - DSIZE)] = s + 1
                        /\ q.mem[Idx(X + s - WSIZE)] = c - s
                        /\ q.mem[Idx(X + c - DSIZE)] = c - s
                        /\ NEXT_BLKP(q, X) = X + s
                        /\ NEXT_BLKP(q, X + s) = X + c
                        /\ GET_ALLOC(q, HDRP(X + s)) = 0
                        /\ GET_SIZE(q, HDRP(X + s)) >= MIN_BLKSIZE
                   ELSE /\ q.mem[Idx(X - WSIZE)] = c + 1
                        /\ q.mem[Idx(X + c - DSIZE)] = c + 1
                        /\ NEXT_BLKP(q, X) = X + c
                        /\ GET_ALLOC(q, HDRP(X)) = 1

\* mm_malloc has split a block, and the free list holds a block that a
\* request of 8 bytes less than its size takes whole.
C16_Witness ==
    /\ last.op = "malloc"
    /\ last.ret # NULL
    /\ GET_SIZE(H, HDRP(last.ret)) = adjsize(last.size)
    /\ NEXT_BLKP(H, last.ret) \in FreeBlocks(H)
    /\ \E X \in FreeListSet(H) : GET_SIZE(H, HDRP(X)) >= 24

\* C17: when place(X, s) splits, the free list afterwards is the list
\* before with the fragment in the place of X, with the links X had, for X
\* the first, the last, the only or an inner block of the list; when it
\* does not split, the list afterwards is the list before without X, the
\* other blocks in the order they had.
C17_SplitPosition ==
    \A a \in Placeable :
       LET X == a.bp
           c == GET_SIZE(a.h, HDRP(X))
           L == FreeList(a.h)
       IN \A s \in PlaceSizes(c) :
             \A q \in {place(a.h, X, s)} :
                IF c - s >= 16
                THEN /\ FreeList(q) = [j \in 1..Len(L) |->
                                         IF L[j] = X THEN X + s ELSE L[j]]
                     /\ PREV(q, X + s) = PREV(a.h, X)
                     /\ NEXT(q, X + s) = NEXT(a.h, X)
                     /\ PREV(a.h, X) = 0 => NEXT(q, q.heap_p) = X + s
                ELSE FreeList(q) = SelectSeq(L, LAMBDA b : b # X)

\* The free list holds three blocks or more, and a request of 16 bytes
\* splits the second.
C17_Witness ==
    /\ Len(FreeList(H)) >= 3
    /\ GET_SIZE(H, HDRP(FreeList(H)[2])) >= 128

\* C18: for every nonzero request size n of size_t, the adjusted block
\* size is a multiple of 8, at least 16 and at least n + 8, also for n
\* within 15 of the largest value of size_t.
C18_AdjustedSize ==
    last.op = "adjsize"
    => /\ last.ret % ALIGNMENT = 0
       /\ LeU(MIN_BLKSIZE, last.ret)
       /\ ~LeU(-DSIZE, last.size)
       /\ LeU(AddU(last.size, DSIZE), last.ret)

\* The first address behind the payload of the block at p.
PayloadEnd(h, p) == p + GET_SIZE(h, HDRP(p)) - DSIZE

\* C19: the payload regions [p, p + block size - 8) of the live pointers
\* are pairwise disjoint, lie behind the prologue and before the epilogue
\* header, and are disjoint from the span (header to footer) of every free
\* block, those of the arena walk and those of the free list.
C19_NoOverlap ==
    /\ \A a \in live :
          /\ a.ptr < PayloadEnd(H, a.ptr)
          /\ a.ptr - WSIZE >= heap_p + DSIZE + WSIZE
          /\ PayloadEnd(H, a.ptr) < HeapBase + mem_heapsize(H) - WSIZE
          /\ \A b \in FreeBlocks(H) \cup FreeListSet(H) :
                \/ PayloadEnd(H, a.ptr) <= b - WSIZE
                \/ b + GET_SIZE(H, HDRP(b)) - WSIZE <= a.ptr
    /\ \A a, b \in live :
          a.ptr # b.ptr
          => \/ PayloadEnd(H, a.ptr) <= b.ptr
             \/ PayloadEnd(H, b.ptr) <= a.ptr

\* Three live blocks and two free blocks share the arena.
C19_Witness ==
    /\ Cardinality(live) = 3
    /\ Cardinality(FreeBlocks(H)) >= 2

\* The arena as the call of this step leaves it, before the client
\* writes to what it was given.
RawCall ==
    CASE last'.op = "malloc" -> mm_malloc(H, last'.size).h
      [] last'.op = "free" -> mm_free(H, last'.ptr)
      [] last'.op = "realloc" -> mm_realloc(H, last'.ptr, last'.size).h

\* The words of the block at p, header to footer.
BlockWords(h, p) ==
    Idx(p - WSIZE) .. Idx(p + GET_SIZE(h, HDRP(p)) - DSIZE)

\* C20: a call of mm_malloc, mm_free or mm_realloc leaves every word
\* (header, payload, footer) of every live block other than the block
\* passed to it as it was, so that block keeps its address, its size and
\* its bytes; all the words the call writes lie elsewhere.
C20_Frame ==
    [][nops' = nops + 1
       => \A raw \in {RawCall} :
             \A a \in live :
                a.ptr # last'.ptr
                => /\ a \in live'
                   /\ \A i \in BlockWords(H, a.ptr) :
                         /\ raw.mem[i] = H.mem[i]
                         /\ HNext.mem[i] = H.mem[i]]_vars

\* mm_realloc has moved a block that had a live block right before it,
\* with two other blocks live.
C20_Witness ==
    /\ last.op = "realloc"
    /\ last.ret # NULL
    /\ Cardinality(live) = 3
    /\ \E a \in live : a.ptr # last.ret /\ NEXT_BLKP(H, a.ptr) = last.ptr
====
